---------------------------- MODULE Spec2Model ----------------------------
(***************************************************************************)
(* resgate main.go: configuration resolution (Config.Init, SetDefault)     *)
(* and the process lifecycle of main (start, wait for a trigger, bounded   *)
(* stop).                                                                  *)
(*                                                                         *)
(* A command line is modelled by what flag.FlagSet.Parse makes of it: for  *)
(* every destination variable either no flag naming it was passed (None)   *)
(* or the value the last such flag carried (Some(v)); plus whether one of  *)
(* its tokens is an unknown flag or a value of the wrong type.             *)
(* A JSON config file is modelled by the keys it holds and their values.   *)
(***************************************************************************)
EXTENDS Integers, Sequences, FiniteSets, TLC

(* ------------------------------ bounds -------------------------------- *)
\* at most this many option flags (other than -h, -c) on a command line
MaxOverrides == 2
\* at most this many keys in a config file found on disk
MaxFileKeys == 1
\* at most this many OS termination signals delivered to the process
MaxSignals == 2

(* ------------------------- optional values ---------------------------- *)
None == {}
Some(v) == {v}
Get(o) == CHOOSE v \in o : TRUE

(* --------------------------- value domains ---------------------------- *)
\* a command-line string that is not valid UTF-8 (argv is raw bytes), and
\* what encoding/json writes for it (U+FFFD)
BadUTF8 == "<ff>"
Replacement == "<U+FFFD>"
ConfigPath == "config.json"

NatsArgs == {"", "nats://cli:4222", BadUTF8}
PortArgs == {0, 9090, 65535, 65536, 70000}
PathArgs == {"", "/cli/"}
FileArgs == {"", "cli.pem"}
TimeoutArgs == {0, 7, -3}
HeadAuthArgs == {"", "cli.auth"}

Opt(S) == {None} \cup {Some(v) : v \in S}

OverrideFlags ==
    {"nats", "port", "wspath", "apipath", "headauth",
     "tls", "tlscert", "tlskey", "reqtimeout"}

NoOverrides ==
    [nats |-> None, port |-> None, wspath |-> None, apipath |-> None,
     headauth |-> None, tls |-> None, tlscert |-> None, tlskey |-> None,
     reqtimeout |-> None]

\* the value a flag may carry
FlagValues(f) ==
    CASE f = "nats" -> NatsArgs
      [] f = "port" -> PortArgs
      [] f \in {"wspath", "apipath"} -> PathArgs
      [] f \in {"tlscert", "tlskey"} -> FileArgs
      [] f = "headauth" -> HeadAuthArgs
      [] f = "tls" -> BOOLEAN
      [] f = "reqtimeout" -> TimeoutArgs

RECURSIVE OverrideSets(_, _)
\* the option flags of a command line carrying at most n of the flags F
OverrideSets(F, n) ==
    IF n = 0 THEN {NoOverrides}
    ELSE LET less == OverrideSets(F, n - 1)
         IN less \cup
            UNION {{[o EXCEPT ![f] = Some(v)] : v \in FlagValues(f)} :
                      o \in less, f \in F}

\* os.Args[1:] as flag.Parse reads it
CommandLines(F, n) ==
    [malformed : BOOLEAN, help : BOOLEAN, config : Opt({ConfigPath}),
     set : OverrideSets(F, n)]

(* --------------------------- the config file -------------------------- *)
JsonKeys ==
    {"natsUrl", "requestTimeout", "debug", "port", "wsPath", "apiPath",
     "headerAuth", "tls", "tlsCert", "tlsKey"}

EmptyJson ==
    [natsUrl |-> None, requestTimeout |-> None, debug |-> None, port |-> None,
     wsPath |-> None, apiPath |-> None, headerAuth |-> None, tls |-> None,
     tlsCert |-> None, tlsKey |-> None]

\* the values a key of a hand-written file may hold; headerAuth is a JSON
\* null (None) or a JSON string
JsonValues(k) ==
    CASE k = "natsUrl" -> {"nats://file:4222"}
      [] k = "requestTimeout" -> {0, 9, -2}
      [] k = "debug" -> {TRUE}
      [] k = "port" -> {0, 9000, 70000}
      [] k \in {"wsPath", "apiPath"} -> {"/file/"}
      [] k = "headerAuth" -> {None, Some(""), Some("auth.method")}
      [] k = "tls" -> BOOLEAN
      [] k \in {"tlsCert", "tlsKey"} -> {"file.pem"}

RECURSIVE JsonObjects(_)
\* the JSON objects holding at most n keys
JsonObjects(n) ==
    IF n = 0 THEN {EmptyJson}
    ELSE LET less == JsonObjects(n - 1)
         IN less \cup
            UNION {{[j EXCEPT ![k] = Some(v)] : v \in JsonValues(k)} :
                      j \in less, k \in JsonKeys}

\* what may be found at the config path when it is first read
DiskStates ==
    {[state |-> s, json |-> EmptyJson] : s \in {"missing", "unreadable", "garbage"}}
    \cup {[state |-> "json", json |-> j] : j \in JsonObjects(MaxFileKeys)}

Unobserved == [state |-> "unobserved", json |-> EmptyJson]

(* ----------------------------- type Config ---------------------------- *)
\* var cfg Config: the zero value (HeaderAuth is a *string, nil = None)
ZeroConfig ==
    [NatsURL |-> "", RequestTimeout |-> 0, Debug |-> FALSE, Port |-> 0,
     WSPath |-> "", APIPath |-> "", HeaderAuth |-> None, TLS |-> FALSE,
     TLSCert |-> "", TLSKey |-> ""]

DefaultNatsURL == "nats://127.0.0.1:4222"
DefaultRequestTimeout == 5
DefaultPort == 8080
DefaultWSPath == "/"
DefaultAPIPath == "/api/"
PortLimit == 65536

\* server.Config.SetDefault: fills the zero-valued fields of the embedded
\* server configuration, leaving HeaderAuth alone
ServerSetDefault(cfg) ==
    [cfg EXCEPT !.Port = IF @ = 0 THEN DefaultPort ELSE @,
                !.WSPath = IF @ = "" THEN DefaultWSPath ELSE @,
                !.APIPath = IF @ = "" THEN DefaultAPIPath ELSE @]

\* SetDefault, mutated: RequestTimeout is left at zero
SetDefault_NoTimeout(cfg) ==
    ServerSetDefault([cfg EXCEPT !.NatsURL = IF @ = "" THEN DefaultNatsURL ELSE @])

\* Config.SetDefault
SetDefault(cfg) ==
    ServerSetDefault(
        [cfg EXCEPT !.NatsURL = IF @ = "" THEN DefaultNatsURL ELSE @,
                    !.RequestTimeout = IF @ = 0 THEN DefaultRequestTimeout ELSE @])

\* fs.Parse(args) on a well-formed command line: every flag passed stores
\* its value through the pointer it was registered with; port and headauth
\* are locals of Init and not written here
ParseInto(a, cfg) ==
    [cfg EXCEPT !.NatsURL = IF a.set.nats # None THEN Get(a.set.nats) ELSE @,
                !.WSPath = IF a.set.wspath # None THEN Get(a.set.wspath) ELSE @,
                !.APIPath = IF a.set.apipath # None THEN Get(a.set.apipath) ELSE @,
                !.TLS = IF a.set.tls # None THEN Get(a.set.tls) ELSE @,
                !.TLSCert = IF a.set.tlscert # None THEN Get(a.set.tlscert) ELSE @,
                !.TLSKey = IF a.set.tlskey # None THEN Get(a.set.tlskey) ELSE @,
                !.RequestTimeout =
                    IF a.set.reqtimeout # None THEN Get(a.set.reqtimeout) ELSE @]

\* encoding/json replaces invalid UTF-8 by U+FFFD when it writes a string
Sanitize(s) == IF s = BadUTF8 THEN Replacement ELSE s

\* Marshal, mutated: RequestTimeout is not written
Marshal_NoTimeout(cfg) ==
    [natsUrl |-> Some(Sanitize(cfg.NatsURL)),
     requestTimeout |-> None,
     debug |-> IF cfg.Debug THEN Some(TRUE) ELSE None,
     port |-> Some(cfg.Port),
     wsPath |-> Some(Sanitize(cfg.WSPath)),
     apiPath |-> Some(Sanitize(cfg.APIPath)),
     headerAuth |->
         Some(IF cfg.HeaderAuth = None THEN None
              ELSE Some(Sanitize(Get(cfg.HeaderAuth)))),
     tls |-> Some(cfg.TLS),
     tlsCert |-> Some(Sanitize(cfg.TLSCert)),
     tlsKey |-> Some(Sanitize(cfg.TLSKey))]

\* json.MarshalIndent(c): every field is written, Debug only when true
\* (omitempty), a nil HeaderAuth as null
Marshal(cfg) ==
    [natsUrl |-> Some(Sanitize(cfg.NatsURL)),
     requestTimeout |-> Some(cfg.RequestTimeout),
     debug |-> IF cfg.Debug THEN Some(TRUE) ELSE None,
     port |-> Some(cfg.Port),
     wsPath |-> Some(Sanitize(cfg.WSPath)),
     apiPath |-> Some(Sanitize(cfg.APIPath)),
     headerAuth |->
         Some(IF cfg.HeaderAuth = None THEN None
              ELSE Some(Sanitize(Get(cfg.HeaderAuth)))),
     tls |-> Some(cfg.TLS),
     tlsCert |-> Some(Sanitize(cfg.TLSCert)),
     tlsKey |-> Some(Sanitize(cfg.TLSKey))]

\* json.Unmarshal fails on a number that does not fit the uint16 Port
UnmarshalOK(j) == IF j.port = None THEN TRUE ELSE Get(j.port) \in 0 .. PortLimit - 1

\* json.Unmarshal(fin, c): the keys the file holds overwrite their fields,
\* the others keep what the first fs.Parse stored
Unmarshal(j, cfg) ==
    [cfg EXCEPT !.NatsURL = IF j.natsUrl # None THEN Get(j.natsUrl) ELSE @,
                !.RequestTimeout =
                    IF j.requestTimeout # None THEN Get(j.requestTimeout) ELSE @,
                !.Debug = IF j.debug # None THEN Get(j.debug) ELSE @,
                !.Port = IF j.port # None THEN Get(j.port) ELSE @,
                !.WSPath = IF j.wsPath # None THEN Get(j.wsPath) ELSE @,
                !.APIPath = IF j.apiPath # None THEN Get(j.apiPath) ELSE @,
                !.HeaderAuth = IF j.headerAuth # None THEN Get(j.headerAuth) ELSE @,
                !.TLS = IF j.tls # None THEN Get(j.tls) ELSE @,
                !.TLSCert = IF j.tlsCert # None THEN Get(j.tlsCert) ELSE @,
                !.TLSKey = IF j.tlsKey # None THEN Get(j.tlsKey) ELSE @]

\* lines 126-128: the port override, narrowed to 16 bits
ApplyPort(p, cfg) == IF p > 0 THEN [cfg EXCEPT !.Port = p % 65536] ELSE cfg

\* VisitHeadAuth, mutated: an empty value is taken for "not passed"
VisitHeadAuth_NoClear(passed, h, cfg) ==
    IF passed /\ h # "" THEN [cfg EXCEPT !.HeaderAuth = Some(h)] ELSE cfg

\* lines 130-141: fs.Visit runs on the flags that were passed; -u and
\* --headauth share the local headauth
VisitHeadAuth(passed, h, cfg) ==
    IF passed
    THEN [cfg EXCEPT !.HeaderAuth = IF h = "" THEN None ELSE Some(h)]
    ELSE cfg

(* ------------------------------ the state ----------------------------- *)
VARIABLES
    args,         \* os.Args[1:] of the running invocation
    run,          \* which invocation of the program this is (1 or 2)
    disk,         \* what is at the config path
    pc,           \* where the process is
    c,            \* cfg, the Config that Init fills
    port,         \* Init's local port
    headauth,     \* Init's local headauth
    showHelp,     \* Init's local showHelp
    configFile,   \* Init's local configFile
    fileRead,     \* ioutil.ReadFile was called by this invocation
    fileWritten,  \* ioutil.WriteFile was called by this invocation
    stdout,       \* what was printed to standard output
    stderr,       \* what was printed to standard error
    exitCode,     \* the exit code, -1 while the process runs
    first,        \* the first invocation: its command line, the Config its
                  \* Init returned and whether it wrote the config file
    constructed,  \* server.NewService was called
    started,      \* serv.Start was called
    stopCh,       \* messages in main's signal channel stop (capacity 1)
    sigs,         \* OS termination signals sent to the process so far
    failCh,       \* what the service offers on serv.StopChannel()
    trigger,      \* which case of main's first select ran
    gpc,          \* where the goroutine calling serv.Stop is
    stopCalls,    \* how many times serv.Stop was called
    timer,        \* the time.After(stopTimeout) timer
    firstReady    \* which case of the second select became ready first

cfgVars == <<c, port, headauth, showHelp, configFile>>
ioVars == <<fileRead, fileWritten, stdout, stderr, exitCode>>
lifeVars == <<constructed, started, stopCh, sigs, failCh, trigger, gpc, stopCalls, timer, firstReady>>
vars == <<args, run, disk, pc, first, cfgVars, ioVars, lifeVars>>

\* a freshly started process
Fresh ==
    /\ pc = "Init"
    /\ c = ZeroConfig
    /\ port = 0
    /\ headauth = ""
    /\ showHelp = FALSE
    /\ configFile = ""
    /\ fileRead = FALSE
    /\ fileWritten = FALSE
    /\ stdout = <<>>
    /\ stderr = <<>>
    /\ exitCode = -1
    /\ constructed = FALSE
    /\ started = FALSE
    /\ stopCh = 0
    /\ sigs = 0
    /\ failCh = "none"
    /\ trigger = "none"
    /\ gpc = "none"
    /\ stopCalls = 0
    /\ timer = "off"
    /\ firstReady = "none"

Init ==
    /\ args \in CommandLines(OverrideFlags, MaxOverrides)
    /\ run = 1
    /\ disk = Unobserved
    /\ first = None
    /\ Fresh

(* ---------------------- usage and printAndDie ------------------------- *)
\* usage(): the usage text on standard output, os.Exit(0)
usage ==
    /\ stdout' = Append(stdout, "usage")
    /\ exitCode' = 0
    /\ pc' = "exited"

\* printAndDie(msg, showUsage): the message, and the usage text when asked,
\* on standard error, os.Exit(1)
printAndDie(showUsage) ==
    /\ stderr' = stderr \o (IF showUsage THEN <<"msg", "usage">> ELSE <<"msg">>)
    /\ exitCode' = 1
    /\ pc' = "exited"
    /\ UNCHANGED stdout

(* ----------------------------- Config.Init ---------------------------- *)
\* line 88 on a malformed command line.  fs was made with flag.ExitOnError
\* and fs.Usage = usage (lines 164-165): Parse prints the error on standard
\* error and calls fs.Usage, which prints to standard output and exits 0;
\* line 89 is never reached
ParseFail ==
    /\ pc = "Init"
    /\ args.malformed
    /\ stderr' = Append(stderr, "msg")
    /\ usage
    /\ UNCHANGED <<args, run, disk, first, cfgVars, fileRead, fileWritten, lifeVars>>

\* line 88 on a well-formed command line
ParseOK ==
    /\ pc = "Init"
    /\ ~args.malformed
    /\ c' = ParseInto(args, c)
    /\ port' = IF args.set.port # None THEN Get(args.set.port) ELSE port
    /\ headauth' = IF args.set.headauth # None THEN Get(args.set.headauth) ELSE headauth
    /\ showHelp' = args.help
    /\ configFile' = IF args.config # None THEN Get(args.config) ELSE configFile
    /\ pc' = "parsed"
    /\ UNCHANGED <<args, run, disk, first, ioVars, lifeVars>>

\* lines 92-98, mutated: the port test is off by one
CheckArgs_PortOffByOne ==
    /\ pc = "parsed"
    /\ IF port > PortLimit
       THEN printAndDie(TRUE)
       ELSE IF showHelp
            THEN usage /\ UNCHANGED stderr
            ELSE pc' = "checked" /\ UNCHANGED <<stdout, stderr, exitCode>>
    /\ UNCHANGED <<args, run, disk, first, cfgVars, fileRead, fileWritten, lifeVars>>

\* lines 92-98, mutated: help goes through printAndDie
CheckArgs_HelpDies ==
    /\ pc = "parsed"
    /\ IF port >= PortLimit
       THEN printAndDie(TRUE)
       ELSE IF showHelp
            THEN printAndDie(TRUE)
            ELSE pc' = "checked" /\ UNCHANGED <<stdout, stderr, exitCode>>
    /\ UNCHANGED <<args, run, disk, first, cfgVars, fileRead, fileWritten, lifeVars>>

\* lines 92-98: a port of 65536 or more ends the process through
\* printAndDie; otherwise a help request ends it through usage
CheckArgs ==
    /\ pc = "parsed"
    /\ IF port >= PortLimit
       THEN printAndDie(TRUE)
       ELSE IF showHelp
            THEN usage /\ UNCHANGED stderr
            ELSE pc' = "checked" /\ UNCHANGED <<stdout, stderr, exitCode>>
    /\ UNCHANGED <<args, run, disk, first, cfgVars, fileRead, fileWritten, lifeVars>>

\* line 100 with no config file named
NoConfigFile ==
    /\ pc = "checked"
    /\ configFile = ""
    /\ pc' = "loaded"
    /\ UNCHANGED <<args, run, disk, first, cfgVars, ioVars, lifeVars>>

\* line 101: ioutil.ReadFile looks at the path; the model learns what is there
ReadFile ==
    /\ pc = "checked"
    /\ configFile # ""
    /\ fileRead' = TRUE
    /\ IF disk = Unobserved THEN disk' \in DiskStates ELSE disk' = disk
    /\ pc' = "read"
    /\ UNCHANGED <<args, run, first, cfgVars, fileWritten, stdout, stderr, exitCode, lifeVars>>

\* lines 102-105 and 116-119: the file cannot be read, or does not parse;
\* Init returns the error
LoadError ==
    /\ pc = "read"
    /\ \/ disk.state \in {"unreadable", "garbage"}
       \/ disk.state = "json" /\ ~UnmarshalOK(disk.json)
    /\ pc' = "failed"
    /\ UNCHANGED <<args, run, disk, first, cfgVars, ioVars, lifeVars>>

\* CreateConfig, mutated: the error of WriteFile is returned
CreateConfig_WriteErrorReturned ==
    /\ pc = "read"
    /\ disk.state = "missing"
    /\ c' = SetDefault(c)
    /\ fileWritten' = TRUE
    /\ \/ disk' = [state |-> "json", json |-> Marshal(c')] /\ pc' = "loaded"
       \/ disk' = disk /\ pc' = "failed"
    /\ UNCHANGED <<args, run, first, port, headauth, showHelp, configFile,
                   fileRead, stdout, stderr, exitCode, lifeVars>>

\* CreateConfig, mutated: the file is written after the port override and
\* the headerAuth resolution
CreateConfig_WritesResolved ==
    /\ pc = "read"
    /\ disk.state = "missing"
    /\ c' = SetDefault(c)
    /\ fileWritten' = TRUE
    /\ \/ disk' = [state |-> "json",
                   json |-> Marshal(SetDefault(VisitHeadAuth(args.set.headauth # None,
                                               headauth, ApplyPort(port, c'))))]
       \/ disk' = disk
    /\ pc' = "loaded"
    /\ UNCHANGED <<args, run, first, port, headauth, showHelp, configFile,
                   fileRead, stdout, stderr, exitCode, lifeVars>>

\* lines 107-114: no file at the path; the defaults are filled in and the
\* result written (the error of WriteFile is dropped)
CreateConfig ==
    /\ pc = "read"
    /\ disk.state = "missing"
    /\ c' = SetDefault(c)
    /\ fileWritten' = TRUE
    /\ \/ disk' = [state |-> "json", json |-> Marshal(c')]
       \/ disk' = disk
    /\ pc' = "loaded"
    /\ UNCHANGED <<args, run, first, port, headauth, showHelp, configFile,
                   fileRead, stdout, stderr, exitCode, lifeVars>>

\* LoadConfig, mutated: the command line is not parsed a second time
LoadConfig_NoReparse ==
    /\ pc = "read"
    /\ disk.state = "json"
    /\ UnmarshalOK(disk.json)
    /\ c' = Unmarshal(disk.json, c)
    /\ pc' = "loaded"
    /\ UNCHANGED <<args, run, disk, first, port, headauth, showHelp, configFile,
                   ioVars, lifeVars>>

\* LoadConfig, mutated: the merged configuration is saved back to the file
LoadConfig_WritesBack ==
    /\ pc = "read"
    /\ disk.state = "json"
    /\ UnmarshalOK(disk.json)
    /\ c' = ParseInto(args, Unmarshal(disk.json, c))
    /\ disk' = [state |-> "json", json |-> Marshal(c')]
    /\ pc' = "loaded"
    /\ UNCHANGED <<args, run, first, port, headauth, showHelp, configFile,
                   ioVars, lifeVars>>

\* lines 116-122: the file is decoded into c, then the command line is
\* parsed again on top of it
LoadConfig ==
    /\ pc = "read"
    /\ disk.state = "json"
    /\ UnmarshalOK(disk.json)
    /\ c' = ParseInto(args, Unmarshal(disk.json, c))
    /\ pc' = "loaded"
    /\ UNCHANGED <<args, run, disk, first, port, headauth, showHelp, configFile,
                   ioVars, lifeVars>>

\* Resolve, mutated: the port is applied whenever its flag was passed
Resolve_PortIfPassed ==
    /\ pc = "loaded"
    /\ c' = SetDefault(VisitHeadAuth(args.set.headauth # None, headauth,
                 IF args.set.port # None THEN [c EXCEPT !.Port = port % 65536]
                 ELSE c))
    /\ first' = IF run = 1
                THEN Some([args |-> args, cfg |-> c', bootstrap |-> fileWritten])
                ELSE first
    /\ pc' = "returned"
    /\ UNCHANGED <<args, run, disk, port, headauth, showHelp, configFile,
                   ioVars, lifeVars>>

\* lines 126-146: port override, headerAuth, defaults; Init returns nil
Resolve ==
    /\ pc = "loaded"
    /\ c' = SetDefault(VisitHeadAuth(args.set.headauth # None, headauth,
                                     ApplyPort(port, c)))
    /\ first' = IF run = 1
                THEN Some([args |-> args, cfg |-> c', bootstrap |-> fileWritten])
                ELSE first
    /\ pc' = "returned"
    /\ UNCHANGED <<args, run, disk, port, headauth, showHelp, configFile,
                   ioVars, lifeVars>>

(* --------------------------------- main -------------------------------- *)
\* lines 169-172, mutated: the error of Init is dropped
InitFailed_Ignored ==
    /\ pc = "failed"
    /\ pc' = "returned"
    /\ UNCHANGED <<args, run, disk, first, cfgVars, ioVars, lifeVars>>

\* lines 169-172: Init returned an error
InitFailed ==
    /\ pc = "failed"
    /\ printAndDie(FALSE)
    /\ UNCHANGED <<args, run, disk, first, cfgVars, fileRead, fileWritten, lifeVars>>

\* lines 174-180
NewService ==
    /\ pc = "returned"
    /\ constructed' = TRUE
    /\ pc' = "starting"
    /\ UNCHANGED <<args, run, disk, first, cfgVars, ioVars,
                   started, stopCh, sigs, failCh, trigger, gpc, stopCalls, timer, firstReady>>

\* lines 182-184, mutated: the service is stopped before the process dies
StartError_CallsStop ==
    /\ pc = "starting"
    /\ started' = TRUE
    /\ stopCalls' = stopCalls + 1
    /\ printAndDie(FALSE)
    /\ UNCHANGED <<args, run, disk, first, cfgVars, fileRead, fileWritten,
                   constructed, stopCh, sigs, failCh, trigger, gpc, timer, firstReady>>

\* lines 182-184: serv.Start fails
StartError ==
    /\ pc = "starting"
    /\ started' = TRUE
    /\ printAndDie(FALSE)
    /\ UNCHANGED <<args, run, disk, first, cfgVars, fileRead, fileWritten,
                   constructed, stopCh, sigs, failCh, trigger, gpc, stopCalls, timer, firstReady>>

\* lines 182-191: serv.Start succeeds, the signals are subscribed to and
\* main waits in the select of line 193
StartOK ==
    /\ pc = "starting"
    /\ started' = TRUE
    /\ pc' = "running"
    /\ UNCHANGED <<args, run, disk, first, cfgVars, ioVars,
                   constructed, stopCh, sigs, failCh, trigger, gpc, stopCalls, timer, firstReady>>

\* the program is invoked again, with --config alone, on the same disk
Rerun ==
    /\ run = 1
    /\ pc \in {"running", "exited", "stopped", "aborted"}
    /\ args.config # None
    /\ run' = 2
    /\ args' = [malformed |-> FALSE, help |-> FALSE, config |-> args.config,
                set |-> NoOverrides]
    /\ pc' = "Init"
    /\ c' = ZeroConfig
    /\ port' = 0
    /\ headauth' = ""
    /\ showHelp' = FALSE
    /\ configFile' = ""
    /\ fileRead' = FALSE
    /\ fileWritten' = FALSE
    /\ stdout' = <<>>
    /\ stderr' = <<>>
    /\ exitCode' = -1
    /\ constructed' = FALSE
    /\ started' = FALSE
    /\ stopCh' = 0
    /\ sigs' = 0
    /\ failCh' = "none"
    /\ trigger' = "none"
    /\ gpc' = "none"
    /\ stopCalls' = 0
    /\ timer' = "off"
    /\ firstReady' = "none"
    /\ UNCHANGED <<disk, first>>

NextConfig ==
    \/ ParseFail \/ ParseOK \/ CheckArgs \/ NoConfigFile
    \/ ReadFile \/ LoadError \/ CreateConfig \/ LoadConfig \/ Resolve
    \/ InitFailed \/ NewService \/ StartError \/ StartOK \/ Rerun

Spec == Init /\ [][NextConfig]_vars

(* --------------------- main: running and shutdown ---------------------- *)
Terminated == pc \in {"exited", "stopped", "aborted"}

\* an OS termination signal is sent to the process; signal.Notify (line
\* 187) puts it in stop unless stop is full
SignalArrives ==
    /\ pc \in {"running", "shutdown", "awaiting"}
    /\ sigs < MaxSignals
    /\ sigs' = sigs + 1
    /\ stopCh' = 1
    /\ UNCHANGED <<args, run, disk, pc, first, cfgVars, ioVars,
                   constructed, started, failCh, trigger, gpc, stopCalls, timer, firstReady>>

\* the service puts a message on its stop channel: nil, or a fatal error
ServiceReports ==
    /\ pc \in {"running", "shutdown", "awaiting"}
    /\ failCh = "none"
    /\ failCh' \in {"nil", "error"}
    /\ UNCHANGED <<args, run, disk, pc, first, cfgVars, ioVars,
                   constructed, started, stopCh, sigs, trigger, gpc, stopCalls, timer, firstReady>>

\* line 194, mutated: a signal is also taken while the stop is awaited
\* and starts the shutdown again
SelectSignal_WhileStopping ==
    /\ pc \in {"running", "awaiting"}
    /\ stopCh = 1
    /\ stopCh' = 0
    /\ trigger' = "signal"
    /\ pc' = "shutdown"
    /\ UNCHANGED <<args, run, disk, first, cfgVars, ioVars,
                   constructed, started, sigs, failCh, gpc, stopCalls, timer, firstReady>>

\* line 194
SelectSignal ==
    /\ pc = "running"
    /\ stopCh = 1
    /\ stopCh' = 0
    /\ trigger' = "signal"
    /\ pc' = "shutdown"
    /\ UNCHANGED <<args, run, disk, first, cfgVars, ioVars,
                   constructed, started, sigs, failCh, gpc, stopCalls, timer, firstReady>>

\* lines 195-198, mutated: the error received is not looked at
SelectFailure_ErrIgnored ==
    /\ pc = "running"
    /\ failCh # "none"
    /\ failCh' = "none"
    /\ trigger' = failCh
    /\ pc' = "shutdown"
    /\ UNCHANGED <<args, run, disk, first, cfgVars, ioVars,
                   constructed, started, stopCh, sigs, gpc, stopCalls, timer, firstReady>>

\* lines 195-198: a message of the service's stop channel is received; an
\* error ends the process at once, nil falls through to the shutdown
SelectFailure ==
    /\ pc = "running"
    /\ failCh # "none"
    /\ failCh' = "none"
    /\ trigger' = failCh
    /\ IF failCh = "error"
       THEN printAndDie(FALSE)
       ELSE pc' = "shutdown" /\ UNCHANGED <<stdout, stderr, exitCode>>
    /\ UNCHANGED <<args, run, disk, first, cfgVars, fileRead, fileWritten,
                   constructed, started, stopCh, sigs, gpc, stopCalls, timer, firstReady>>

\* lines 201-207, mutated: no timeout case in the select
SpawnStop_NoTimer ==
    /\ pc = "shutdown"
    /\ gpc' = "spawned"
    /\ pc' = "awaiting"
    /\ UNCHANGED <<args, run, disk, first, cfgVars, ioVars,
                   constructed, started, stopCh, sigs, failCh, trigger, stopCalls, timer, firstReady>>

\* lines 201-207: done is made, the goroutine is spawned and main enters
\* the second select, which starts the timer
SpawnStop ==
    /\ pc = "shutdown"
    /\ gpc' = "spawned"
    /\ timer' = "armed"
    /\ pc' = "awaiting"
    /\ UNCHANGED <<args, run, disk, first, cfgVars, ioVars,
                   constructed, started, stopCh, sigs, failCh, trigger, stopCalls, firstReady>>

\* line 204: the goroutine calls serv.Stop(nil)
StopCall ==
    /\ pc = "awaiting"
    /\ gpc = "spawned"
    /\ gpc' = "stopping"
    /\ stopCalls' = stopCalls + 1
    /\ UNCHANGED <<args, run, disk, pc, first, cfgVars, ioVars,
                   constructed, started, stopCh, sigs, failCh, trigger, timer, firstReady>>

\* lines 203-205: serv.Stop returns and the goroutine closes done
StopReturns ==
    /\ pc = "awaiting"
    /\ gpc = "stopping"
    /\ gpc' = "done"
    /\ firstReady' = IF firstReady = "none" THEN "done" ELSE firstReady
    /\ UNCHANGED <<args, run, disk, pc, first, cfgVars, ioVars,
                   constructed, started, stopCh, sigs, failCh, trigger, stopCalls, timer>>

\* stopTimeout has passed since the timer was started
TimerFires ==
    /\ pc = "awaiting"
    /\ timer = "armed"
    /\ timer' = "fired"
    /\ firstReady' = IF firstReady = "none" THEN "timer" ELSE firstReady
    /\ UNCHANGED <<args, run, disk, pc, first, cfgVars, ioVars,
                   constructed, started, stopCh, sigs, failCh, trigger, gpc, stopCalls>>

\* line 208: done is closed; main returns and the process exits with 0
AwaitDone ==
    /\ pc = "awaiting"
    /\ gpc = "done"
    /\ pc' = "stopped"
    /\ exitCode' = 0
    /\ UNCHANGED <<args, run, disk, first, cfgVars, fileRead, fileWritten,
                   stdout, stderr, lifeVars>>

\* lines 209-210, mutated: a default case in place of the timer
AwaitTimeout_Default ==
    /\ pc = "awaiting"
    /\ gpc # "done"
    /\ pc' = "aborted"
    /\ exitCode' = 2
    /\ stderr' = Append(stderr, "panic")
    /\ UNCHANGED <<args, run, disk, first, cfgVars, fileRead, fileWritten,
                   stdout, lifeVars>>

\* lines 209-210: the timer has fired; panic ends the process with 2
AwaitTimeout ==
    /\ pc = "awaiting"
    /\ timer = "fired"
    /\ pc' = "aborted"
    /\ exitCode' = 2
    /\ stderr' = Append(stderr, "panic")
    /\ UNCHANGED <<args, run, disk, first, cfgVars, fileRead, fileWritten,
                   stdout, lifeVars>>

Next ==
    \/ NextConfig
    \/ SignalArrives \/ ServiceReports \/ SelectSignal \/ SelectFailure
    \/ SpawnStop \/ StopCall \/ StopReturns \/ TimerFires
    \/ AwaitDone \/ AwaitTimeout

\* the lifecycle is followed on the command lines whose only option flag
\* is the port
InitLife ==
    /\ args \in CommandLines({"port"}, 1)
    /\ run = 1
    /\ disk = Unobserved
    /\ first = None
    /\ Fresh

LifeSpec == InitLife /\ [][Next]_vars

\* the Go scheduler runs main when it can run, and a started timer fires;
\* nothing makes serv.Stop return
LiveSpec ==
    /\ LifeSpec
    /\ WF_vars(SpawnStop)
    /\ WF_vars(TimerFires)
    /\ WF_vars(AwaitDone \/ AwaitTimeout)

(* ------------------------------ the claims ----------------------------- *)
\* this invocation found a config file that parses
FileLoaded == fileRead /\ ~fileWritten /\ disk.state = "json"

\* the field of c a flag is about, and the flag value that means "unset"
FieldOf(f) ==
    CASE f = "nats" -> c.NatsURL
      [] f = "port" -> c.Port
      [] f = "wspath" -> c.WSPath
      [] f = "apipath" -> c.APIPath
      [] f = "tls" -> c.TLS
      [] f = "tlscert" -> c.TLSCert
      [] f = "tlskey" -> c.TLSKey
      [] f = "reqtimeout" -> c.RequestTimeout

Sentinel(f) ==
    CASE f \in {"nats", "wspath", "apipath", "tlscert", "tlskey"} -> ""
      [] f \in {"port", "reqtimeout"} -> 0
      [] f = "tls" -> FALSE

KeyOf(f) ==
    CASE f = "nats" -> "natsUrl"
      [] f = "port" -> "port"
      [] f = "wspath" -> "wsPath"
      [] f = "apipath" -> "apiPath"
      [] f = "tls" -> "tls"
      [] f = "tlscert" -> "tlsCert"
      [] f = "tlskey" -> "tlsKey"
      [] f = "reqtimeout" -> "requestTimeout"

\* a flag passed with a value other than the unset sentinel
Supplied(f) ==
    IF args.set[f] = None THEN FALSE ELSE Get(args.set[f]) # Sentinel(f)

\* C1: when the config file exists and parses, every field whose flag was
\* passed with a value other than the unset sentinel has the command-line
\* value in the configuration Init returns, whatever the file holds.
C1_CliWinsOverFile ==
    (pc = "returned" /\ FileLoaded) =>
        \A f \in OverrideFlags \ {"headauth"} :
            Supplied(f) => FieldOf(f) = Get(args.set[f])

\* file port 9000 and --port 9090 resolve to 9090
C1_Witness ==
    /\ pc = "returned"
    /\ FileLoaded
    /\ disk.json.port = Some(9000)
    /\ args.set.port = Some(9090)
    /\ c.Port = 9090

\* the headerAuth the file supplies to this invocation, nil when none
FileHeaderAuth ==
    IF FileLoaded
    THEN IF disk.json.headerAuth = None THEN None ELSE Get(disk.json.headerAuth)
    ELSE None

\* C2: headerAuth is resolved tri-state: -u/--headauth never passed leaves
\* the file/default value; passed with a non-empty value sets that value;
\* passed empty makes it absent even when the file supplies a value.
C2_HeaderAuthTriState ==
    pc = "returned" =>
        c.HeaderAuth =
            IF args.set.headauth = None THEN FileHeaderAuth
            ELSE IF Get(args.set.headauth) = "" THEN None
            ELSE args.set.headauth

\* a file holding auth.method and --headauth "" resolve to absent
C2_Witness ==
    /\ pc = "returned"
    /\ FileLoaded
    /\ disk.json.headerAuth = Some(Some("auth.method"))
    /\ args.set.headauth = Some("")
    /\ c.HeaderAuth = None

\* the second invocation's Init has returned, after a first invocation that
\* found no file at the path
RerunReturned ==
    /\ run = 2
    /\ pc = "returned"
    /\ first # None
    /\ IF first = None THEN FALSE ELSE Get(first).bootstrap

\* C3 as claimed: after Init ran with --config naming a missing path, with
\* any overrides, Init run again with the file it left at the path and
\* --config alone returns the configuration the first run returned.
C3_RoundTripAnyOverrides ==
    (RerunReturned /\ FileLoaded) => c = Get(first).cfg

\* a command line whose values the bootstrap file keeps: no port above 0,
\* no non-empty headauth, no string that is not valid UTF-8
Kept(a) ==
    /\ IF a.set.port = None THEN TRUE ELSE Get(a.set.port) = 0
    /\ IF a.set.headauth = None THEN TRUE ELSE Get(a.set.headauth) = ""
    /\ \A f \in {"nats", "wspath", "apipath", "tlscert", "tlskey"} :
           a.set[f] # Some(BadUTF8)

\* C3, amended: if the first run's WriteFile succeeded (the second run
\* found the file) and the first command line carried no port above 0, no
\* non-empty headauth and only valid UTF-8, the second run returns the
\* configuration the first run returned.
C3_RoundTripKept ==
    (RerunReturned /\ FileLoaded /\ Kept(Get(first).args)) => c = Get(first).cfg

\* the round trip of a first run that carried --nats and -r
C3_Witness ==
    /\ RerunReturned
    /\ FileLoaded
    /\ Get(first).args.set.nats = Some("nats://cli:4222")
    /\ Get(first).args.set.reqtimeout = Some(7)
    /\ c = Get(first).cfg
    /\ c.NatsURL = "nats://cli:4222"
    /\ c.RequestTimeout = 7

\* main is on the shutdown path: lines 200-211
OnShutdownPath == pc \in {"shutdown", "awaiting", "stopped", "aborted"}

C5_BoundedShutdown == (stopCalls > 0) ~> (pc \in {"stopped", "aborted"})

\* the process was ended by the timeout while serv.Stop had not returned
C5_Witness ==
    /\ pc = "aborted"
    /\ gpc = "stopping"
    /\ exitCode = 2

\* C6 as claimed: a malformed command line ends the process with a nonzero
\* exit code and the usage text on standard error, and the service is
\* never constructed.
C6_MalformedExitsNonzero ==
    (args.malformed /\ pc # "Init") =>
        /\ pc = "exited"
        /\ exitCode # 0
        /\ \E i \in DOMAIN stderr : stderr[i] = "usage"
        /\ stdout = <<>>
        /\ ~constructed

\* a help request has been dealt with, on a command line that parses
HelpHandled == args.help /\ ~args.malformed /\ pc \notin {"Init", "parsed"}

HelpOutcome ==
    /\ pc = "exited"
    /\ exitCode = 0
    /\ stdout = <<"usage">>
    /\ ~fileRead
    /\ ~fileWritten

\* C7 as claimed: a help request on a command line that parses ends the
\* process with exit code 0 after printing the usage text, whatever other
\* options accompany it, before any config file is read or written.
C7_HelpExitsZero == HelpHandled => HelpOutcome

\* the command line carries a port of 65536 or more
LargePort ==
    IF args.set.port = None THEN FALSE ELSE Get(args.set.port) >= PortLimit

\* C7, amended: a help request on a command line that parses ends the
\* process with exit code 0 after printing the usage text, before any
\* config file is read or written, whatever other options accompany it
\* except a port of 65536 or more, which ends it with exit code 1 first.
C7_HelpExitsZeroUnlessLargePort ==
    HelpHandled =>
        IF LargePort THEN pc = "exited" /\ exitCode = 1 ELSE HelpOutcome

\* help together with --config and another option
C7_Witness ==
    /\ args.help
    /\ args.config # None
    /\ args.set.nats = Some("nats://cli:4222")
    /\ HelpOutcome

\* C8: whenever Init returns without error the port lies in 1..65535; a
\* command-line port above 65535 never yields a configuration: the process
\* ends with an error message (and, the command line being otherwise well
\* formed, exit code 1) before the service is constructed.
C8_PortInRange ==
    /\ pc = "returned" => c.Port \in 1 .. 65535
    /\ LargePort =>
           /\ pc \in {"Init", "parsed", "exited"}
           /\ pc = "exited" =>
                  /\ stderr # <<>>
                  /\ ~constructed
                  /\ ~args.malformed => exitCode = 1

\* --port 70000 has ended the process
C8_Witness ==
    /\ args.set.port = Some(70000)
    /\ ~args.malformed
    /\ pc = "exited"
    /\ exitCode = 1

\* C9 as claimed: whenever Init returns without error requestTimeout is
\* positive.
C9_TimeoutPositive == pc = "returned" => c.RequestTimeout > 0

\* C10 as claimed: whenever Init returns without error headerAuth is absent
\* or a non-empty string.
C10_HeaderAuthNeverEmpty == pc = "returned" => c.HeaderAuth # Some("")

\* C11 as claimed: if serv.Stop completes (done is closed) before the stop
\* timeout elapses, main returns normally and never ends in the panic of
\* the timeout, under every interleaving.
C11_StopFirstNeverAborts == firstReady = "done" => pc # "aborted"

\* C12: when serv.Start returns an error the process exits with code 1
\* and nothing more: serv.Stop is never called, main never waits for a
\* trigger, no stop goroutine and no timer are started.
C12_StartErrorExits ==
    /\ [][(pc = "starting" /\ pc' = "exited") =>
              /\ exitCode' = 1
              /\ stderr' = <<"msg">>
              /\ trigger' = "none"
              /\ stopCalls' = 0
              /\ gpc' = "none"
              /\ timer' = "off"]_vars
    /\ [][(pc = "exited" /\ run' = run) => UNCHANGED vars]_vars

\* serv.Start failed: the process is gone, no trigger was waited for
C12_Witness ==
    /\ pc = "exited"
    /\ started
    /\ trigger = "none"
    /\ exitCode = 1
    /\ stopCalls = 0

\* ioutil.ReadFile or json.Unmarshal failed on the config file
BadFile ==
    /\ fileRead
    /\ IF disk.state = "json" THEN ~UnmarshalOK(disk.json)
       ELSE disk.state \in {"unreadable", "garbage"}

\* C13: when the config file exists but cannot be read or does not parse,
\* or the command-line port is out of range, the process ends with exit
\* code 1 before the client and the service are constructed and before
\* serv.Start is called.
C13_BadConfigExitsBeforeService ==
    ((BadFile /\ pc # "read")
        \/ (LargePort /\ ~args.malformed /\ pc \notin {"Init", "parsed"})) =>
        /\ pc \in {"failed", "exited"}
        /\ pc = "exited" => exitCode = 1
        /\ ~constructed
        /\ ~started

\* a file that does not parse has ended the process
C13_Witness ==
    /\ BadFile
    /\ disk.state = "garbage"
    /\ pc = "exited"
    /\ exitCode = 1
    /\ stderr = <<"msg">>
    /\ ~constructed

\* something is at the config path
FileExists == disk.state \in {"unreadable", "garbage", "json"}

\* C14: the config file is written only when a path was given and no file
\* exists at it; a file that exists is never written or changed by any
\* run, whatever the overrides and whether or not it parses.
C14_ExistingFileUntouched ==
    /\ [][FileExists => (disk' = disk /\ (fileWritten' => fileWritten))]_vars
    /\ [][(fileWritten' /\ ~fileWritten) =>
              (configFile # "" /\ disk.state = "missing")]_vars

\* a file was loaded under an override of one of its keys and still holds
\* its own value
C14_Witness ==
    /\ pc = "returned"
    /\ FileLoaded
    /\ args.set.nats = Some("nats://cli:4222")
    /\ c.NatsURL = "nats://cli:4222"
    /\ disk.json.natsUrl = Some("nats://file:4222")

\* the three layers merged as documented: a flag passed with a value other
\* than the unset sentinel gives the field; a flag passed with the sentinel
\* gives the default, except that port 0 counts as not passed; otherwise a
\* non-zero value of the file j gives the field, and the default if none
Layered(a, j) ==
    LET val(f, d) ==
            IF a.set[f] # None /\ f # "port"
            THEN IF Get(a.set[f]) = Sentinel(f) THEN d ELSE Get(a.set[f])
            ELSE IF a.set[f] # None /\ Get(a.set[f]) # Sentinel(f)
            THEN Get(a.set[f])
            ELSE IF j[KeyOf(f)] = None THEN d
            ELSE IF Get(j[KeyOf(f)]) = Sentinel(f) THEN d ELSE Get(j[KeyOf(f)])
    IN [NatsURL |-> val("nats", "nats://127.0.0.1:4222"),
        RequestTimeout |-> val("reqtimeout", 5),
        Debug |-> IF j.debug = None THEN FALSE ELSE Get(j.debug),
        Port |-> val("port", 8080),
        WSPath |-> val("wspath", "/"),
        APIPath |-> val("apipath", "/api/"),
        HeaderAuth |->
            IF a.set.headauth # None
            THEN IF a.set.headauth = Some("") THEN None ELSE a.set.headauth
            ELSE IF j.headerAuth = None THEN None ELSE Get(j.headerAuth),
        TLS |-> val("tls", FALSE),
        TLSCert |-> val("tlscert", ""),
        TLSKey |-> val("tlskey", "")]

\* what the command line alone resolves to
CliOrDefault(a) == Layered(a, EmptyJson)

\* WriteFile was called and left no file
WriteFailed == fileWritten /\ disk.state = "missing"

\* C15: a failed write of the bootstrap file is swallowed: Init returns nil
\* with the configuration it returns when the write succeeds (what the
\* command line and the defaults give), and main goes on to construct and
\* start the service.
C15_WriteFailureSwallowed ==
    /\ WriteFailed =>
           /\ pc # "failed"
           /\ pc = "exited" => started
    /\ (fileWritten /\ pc = "returned") => c = CliOrDefault(args)

\* the write failed and the service was constructed and started
C15_Witness ==
    /\ WriteFailed
    /\ pc = "running"
    /\ constructed
    /\ started
    /\ args.set.nats = Some("nats://cli:4222")
    /\ c = CliOrDefault(args)

\* the keys of the config file this invocation loaded, none when it loaded
\* no file
LoadedJson == IF FileLoaded THEN disk.json ELSE EmptyJson

\* C16: --port 0 is indistinguishable from no port flag: with the port flag
\* absent or 0, Init returns what the same command line without a port flag
\* resolves to, for every file and every other override; the port is the
\* file's, and the default when the file supplies none.
C16_PortZeroIsUnset ==
    (pc = "returned" /\ args.set.port \in {None, Some(0)}) =>
        /\ c = Layered([args EXCEPT !.set.port = None], LoadedJson)
        /\ c.Port = IF LoadedJson.port \in {None, Some(0)} THEN DefaultPort
                    ELSE Get(LoadedJson.port)

\* --port 0 over a file port of 9000 resolves to 9000
C16_Witness ==
    /\ pc = "returned"
    /\ args.set.port = Some(0)
    /\ FileLoaded
    /\ disk.json.port = Some(9000)
    /\ c.Port = 9000

\* C17: when no config path is given every field of the configuration Init
\* returns is its command-line value or the documented default, and no
\* file is read or written.
C17_NoFileCliOrDefault ==
    (args.config = None /\ pc \notin {"Init", "parsed", "checked"}) =>
        /\ ~fileRead
        /\ ~fileWritten
        /\ disk = Unobserved
        /\ pc = "returned" => c = CliOrDefault(args)

\* no --config, -r 7 and a TLS certificate: the rest are defaults
C17_Witness ==
    /\ pc = "returned"
    /\ args.config = None
    /\ args.set.reqtimeout = Some(7)
    /\ args.set.tlscert = Some("cli.pem")
    /\ c.RequestTimeout = 7
    /\ c.TLSCert = "cli.pem"
    /\ c.NatsURL = DefaultNatsURL
    /\ c.Port = DefaultPort
    /\ c.HeaderAuth = None

\* the lifecycle state main is in; a process ended by os.Exit has none
Lifecycle ==
    CASE pc \in {"Init", "parsed", "checked", "read", "loaded", "failed",
                 "returned"} -> "Idle"
      [] pc = "starting" -> "Starting"
      [] pc = "running" -> "Running"
      [] pc \in {"shutdown", "awaiting"} -> "Stopping"
      [] pc = "stopped" -> "Stopped"
      [] pc = "aborted" -> "Aborted"
      [] pc = "exited" -> "Exited"

Rank(l) ==
    CASE l = "Idle" -> 0
      [] l = "Starting" -> 1
      [] l = "Running" -> 2
      [] l = "Stopping" -> 3
      [] l \in {"Stopped", "Aborted", "Exited"} -> 4

\* C18: within one run the lifecycle only moves forward, one state at a
\* time, through Idle, Starting, Running, Stopping, Stopped; serv.Stop is
\* called only after serv.Start returned nil; Stopped is entered only
\* once serv.Stop has returned; Aborted is entered only from Stopping
\* with the timer fired.
C18_LifecycleForward ==
    /\ [][run' = run =>
              /\ Rank(Lifecycle') >= Rank(Lifecycle)
              /\ (Lifecycle' # "Exited" => Rank(Lifecycle') <= Rank(Lifecycle) + 1)
              /\ (Lifecycle' = "Stopped" /\ Lifecycle # "Stopped") =>
                     (Lifecycle = "Stopping" /\ gpc = "done")
              /\ (Lifecycle' = "Aborted" /\ Lifecycle # "Aborted") =>
                     (Lifecycle = "Stopping" /\ timer = "fired")
              /\ stopCalls' > stopCalls =>
                     (started /\ Lifecycle = "Stopping" /\ exitCode = -1)]_vars
    /\ [](Lifecycle \in {"Stopped", "Aborted"} => started /\ trigger # "none")

\* aborted from Stopping while serv.Stop was still running
C18_Witness ==
    /\ Lifecycle = "Aborted"
    /\ timer = "fired"
    /\ gpc = "stopping"
    /\ stopCalls = 1
    /\ started

\* C19: serv.Stop is called at most once per run, also when both triggers
\* fire and further signals arrive while the stop is in progress.
C19_StopAtMostOnce == stopCalls <= 1

\* a signal started the shutdown; during the stop another signal arrived
\* and the service reported too
C19_Witness ==
    /\ stopCalls = 1
    /\ trigger = "signal"
    /\ gpc = "stopping"
    /\ sigs = 2
    /\ stopCh = 1
    /\ failCh # "none"

\* C20: on a first run (path given, no file) the file is serialized before
\* the port override and the headerAuth resolution: it records the default
\* port and no headerAuth even when --port or --headauth were passed,
\* while the configuration returned carries the command line's.
C20_BootstrapWrittenBeforeOverrides ==
    (fileWritten /\ disk.state = "json" /\ pc = "returned") =>
        /\ disk.json.port = Some(DefaultPort)
        /\ disk.json.headerAuth = Some(None)
        /\ Supplied("port") => c.Port = Get(args.set.port)
        /\ c.HeaderAuth =
               IF args.set.headauth \in {None, Some("")} THEN None
               ELSE args.set.headauth

\* --port 9090 --headauth cli.auth on a first run
C20_Witness ==
    /\ fileWritten
    /\ disk.state = "json"
    /\ pc = "returned"
    /\ args.set.port = Some(9090)
    /\ args.set.headauth = Some("cli.auth")
    /\ disk.json.port = Some(8080)
    /\ disk.json.headerAuth = Some(None)
    /\ c.Port = 9090
    /\ c.HeaderAuth = Some("cli.auth")
====
